---- MODULE Spec2Model ----
(***************************************************************************)
(* Model of scipy/stats/_continued_fraction.py: the modified Lentz         *)
(* recurrence of `_continued_fraction`, run elementwise over a batch by    *)
(* the elementwise-iterative-method loop (`eim._loop`).                    *)
(*                                                                         *)
(* Numbers.  An array element is an extended rational <<n, d>>: d > 0 is   *)
(* the finite value n/d in lowest terms, <<1, 0>> is +inf, <<-1, 0>> is    *)
(* -inf and <<0, 0>> is NaN.  Arithmetic is exact inside the finite range  *)
(* and overflows to an infinity beyond MaxFloat, as IEEE arithmetic does;  *)
(* rounding inside the range, underflow and the sign of zero are not       *)
(* modelled.                                                               *)
(*                                                                         *)
(* Log mode.  With log = True every quantity the code holds is a           *)
(* logarithm.  The model holds the antilogarithm v of such a quantity      *)
(* log(v): -inf is held as 0, a sum of logarithms as a product, a negated  *)
(* logarithm as a reciprocal and logaddexp as a sum (the Log* operators).  *)
(* A negative v stands for the complex logarithm log|v| + i*pi that the    *)
(* code uses to carry a sign.                                              *)
(*                                                                         *)
(* Calls.  Three kinds of call run side by side on the same coefficient    *)
(* callables, so that results of different calls can be compared: `batch`  *)
(* (all elements in one call), `solo[i]` (element i alone in its own call) *)
(* and `alt` (the batch call with another value for a(0, *args)).          *)
(***************************************************************************)
EXTENDS Integers, Sequences, FiniteSets, TLC

NElem == 2          \* largest batch size
MaxIterBound == 2   \* largest `maxiter` tried
MaxFloat == 1024    \* largest finite magnitude of the float type
EpsInv == 4         \* finfo(dtype).eps is 1/EpsInv

\* exit codes of the elementwise-iterative-method framework
ECONVERGED == 0
EINPROGRESS == 1
ECONVERR == -2
EVALUEERR == -3

----------------------------------------------------------------------------
\* Extended rational arithmetic (the array library's float arithmetic)

Abs(i) == IF i < 0 THEN -i ELSE i
Sgn(i) == IF i < 0 THEN -1 ELSE IF i > 0 THEN 1 ELSE 0

RECURSIVE GCD(_, _)
GCD(x, y) == IF y = 0 THEN x ELSE GCD(y, x % y)

PInf == <<1, 0>>
NInf == <<-1, 0>>
NaN == <<0, 0>>
Zero == <<0, 1>>
One == <<1, 1>>

\* the value n/d in canonical form, without overflow
Norm(n, d) ==
    IF d = 0 THEN <<Sgn(n), 0>>
    ELSE LET g == GCD(Abs(n), Abs(d))
             s == Sgn(d)
         IN  <<(s * n) \div g, (s * d) \div g>>

\* overflow of a finite value to an infinity
Round(x) ==
    IF x[2] # 0 /\ Abs(x[1]) > MaxFloat * x[2] THEN <<Sgn(x[1]), 0>> ELSE x

IsFinite(x) == x[2] # 0
IsNaN(x) == x = NaN

AddX(x, y) ==
    IF x[2] = 0 /\ y[2] = 0 THEN (IF x = y THEN x ELSE NaN)
    ELSE Norm(x[1] * y[2] + y[1] * x[2], x[2] * y[2])
MulX(x, y) == Norm(x[1] * y[1], x[2] * y[2])
RecipX(x) ==
    IF x[1] > 0 THEN <<x[2], x[1]>>
    ELSE IF x[1] < 0 THEN <<-x[2], -x[1]>>
    ELSE IF x[2] = 0 THEN NaN ELSE PInf

Add(x, y) == Round(AddX(x, y))
Mul(x, y) == Round(MulX(x, y))
Recip(x) == Round(RecipX(x))
Div(x, y) == Round(MulX(x, RecipX(y)))
Neg(x) == <<-x[1], x[2]>>
Sub(x, y) == Add(x, Neg(y))
AbsV(x) == <<Abs(x[1]), x[2]>>

\* x < y as the float comparison: False when either side is NaN
Less(x, y) ==
    IF IsNaN(x) \/ IsNaN(y) \/ x = y THEN FALSE
    ELSE IF x = NInf \/ y = PInf THEN TRUE
    ELSE IF x = PInf \/ y = NInf THEN FALSE
    ELSE x[1] * y[2] < y[1] * x[2]

----------------------------------------------------------------------------
\* Log-domain arithmetic on antilogarithms (log mode never overflows: the
\* logarithm of a huge value is a small number)

LogNegInf == Zero                        \* -inf = log(0)
LogPosInf == PInf                        \* +inf
LogAddExp(x, y) == AddX(x, y)            \* _logaddexp(x, y) = log(e^x + e^y)
LogPlus(x, y) == MulX(x, y)              \* x + y
LogMinus(x, y) == MulX(x, RecipX(y))     \* x - y
LogNegate(x) == RecipX(x)                \* -x
LogIsFinite(x) == IsFinite(x) /\ x # Zero
\* real(_logaddexp(x, i*pi)) = log|e^x - 1|, held as |e^x - 1|
LogResidual(x) == AbsV(AddX(x, Neg(One)))

----------------------------------------------------------------------------
\* Inputs

None == <<>>
Big == <<MaxFloat, 1>>
FloatEps == <<1, EpsInv>>                \* xp.finfo(dtype).eps

\* the `tolerances` dictionaries tried; the last one is rejected
ToleranceChoices ==
    {[eps |-> None, tiny |-> None], [eps |-> <<2, 1>>, tiny |-> None],
     [eps |-> None, tiny |-> <<1, 2>>], [eps |-> Zero, tiny |-> None]}
MaxiterChoices == -1 .. MaxIterBound
A0Choices == {Zero, NaN}
B0Choices == {Zero, One, Big, PInf}
\* coefficient pairs <<a(n, x), b(n, x)>> a callable pair can return at n >= 1
Pairs == {<<One, <<2, 1>>>>, <<Neg(One), One>>}
Elements == 1 .. NElem

\* _continued_fraction_iv: True when the options pass validation.  A
\* tolerance given as a logarithm is finite exactly when its antilogarithm
\* is finite and positive.
continued_fraction_iv(tolerances, maxiter, log) ==
    LET tols == <<IF tolerances.eps # None THEN tolerances.eps ELSE One,
                  IF tolerances.tiny # None THEN tolerances.tiny ELSE One>>
        not_positive == IF ~log THEN \E k \in 1..2 : ~Less(Zero, tols[k])
                        ELSE FALSE
        not_finite == IF ~log THEN \E k \in 1..2 : ~IsFinite(tols[k])
                      ELSE \E k \in 1..2 : ~(IsFinite(tols[k]) /\ Less(Zero, tols[k]))
    IN  ~(not_positive \/ not_finite) /\ maxiter >= 0

----------------------------------------------------------------------------
\* Arrays are sequences; boolean-mask indexing

KeepIdx(mask) ==
    LET F[k \in 0 .. Len(mask)] ==
            IF k = 0 THEN <<>>
            ELSE IF mask[k] THEN Append(F[k - 1], k) ELSE F[k - 1]
    IN  F[Len(mask)]

\* arr[mask]
Masked(arr, mask) ==
    LET keep == KeepIdx(mask) IN [k \in 1 .. Len(keep) |-> arr[keep[k]]]

Full(n, v) == [k \in 1 .. n |-> v]

----------------------------------------------------------------------------
\* _continued_fraction: initialization

DomainZero(log) == IF log THEN LogNegInf ELSE Zero

\* eps and tiny as resolved after validation
ResolveEps(eps, log) == IF eps = None THEN FloatEps ELSE eps
ResolveTiny(tiny, log) ==
    IF tiny # None THEN tiny
    ELSE IF ~log THEN MulX(FloatEps, FloatEps) ELSE LogPlus(FloatEps, FloatEps)

\* mutant: the zeroth numerator is added to the leading term
InitFnWithA0(an, bn, tiny, log) ==
    IF bn = DomainZero(log) THEN tiny
    ELSE IF ~log THEN Add(an, bn) ELSE LogAddExp(an, bn)

\* fn = xp.where(bn == zero, tiny, bn)
InitFn(an, bn, tiny, log) == IF bn = DomainZero(log) THEN tiny ELSE bn

\* mutant: the correction factor starts at one
InitCnDnOne(log) == One

\* CnDn = xp.full_like(fn, xp.inf)
InitCnDn(log) == IF log THEN LogPosInf ELSE PInf

\* work = _RichResult(n=0, fn=fn, Cnm1=Cnm1, Dnm1=Dnm1, CnDn=CnDn, eps=eps,
\* tiny=tiny, nit=nit, nfev=nfev, status=status)
WorkObject(fs_a, fs_b, args, o, nit, nfev) ==
    LET an == fs_a
        bn == fs_b
        eps == ResolveEps(o.eps, o.log)
        tiny == ResolveTiny(o.tiny, o.log)
        fn == [j \in DOMAIN bn |-> InitFn(an[j], bn[j], tiny, o.log)]
    IN  [n |-> 0, fn |-> fn, Cnm1 |-> fn,
         Dnm1 |-> [j \in DOMAIN fn |-> DomainZero(o.log)],
         CnDn |-> [j \in DOMAIN fn |-> InitCnDn(o.log)],
         eps |-> eps, tiny |-> tiny, nit |-> nit, nfev |-> nfev,
         status |-> [j \in DOMAIN an |-> EINPROGRESS],
         args |-> args,
         \* history: no tiny-substitution and no overflow so far
         exact |-> [j \in DOMAIN bn |-> bn[j] # DomainZero(o.log) /\ IsFinite(bn[j])]]

\* mutant: the evaluation of the zeroth terms is not counted
InitWorkUncounted(fs_a, fs_b, args, o) == WorkObject(fs_a, fs_b, args, o, 0, 0)

\* nit, nfev = 0, 1: the work object built from the zeroth terms
InitWork(fs_a, fs_b, args, o) == WorkObject(fs_a, fs_b, args, o, 0, 1)

----------------------------------------------------------------------------
\* The callbacks handed to eim._loop

\* pre_func_eval: the next term index
pre_func_eval(work) == [work EXCEPT !.n = work.n + 1]

\* "Set D_n = 1/(b_n + a_n D_{n-1}) or 1/tiny, if the denominator vanishes"
DenominatorRaw(an, bn, Dnm1, log) ==
    IF ~log THEN Add(bn, Mul(an, Dnm1)) ELSE LogAddExp(bn, LogPlus(an, Dnm1))
Denominator(an, bn, Dnm1, tiny, log) ==
    LET denominator == DenominatorRaw(an, bn, Dnm1, log)
    IN  IF denominator = DomainZero(log) THEN tiny ELSE denominator
Dn(denominator, log) ==
    IF ~log THEN Div(One, denominator) ELSE LogNegate(denominator)

\* "Set C_n = b_n + a_n / C_{n-1} (or =tiny, if the expression vanishes)"
CnRaw(an, bn, Cnm1, log) ==
    IF ~log THEN Add(bn, Div(an, Cnm1)) ELSE LogAddExp(bn, LogMinus(an, Cnm1))

\* mutant: a vanishing Cn is kept
CnNoTiny(an, bn, Cnm1, tiny, log) == CnRaw(an, bn, Cnm1, log)

\* mutant: a_n is multiplied by C_{n-1}
CnTimes(an, bn, Cnm1, tiny, log) ==
    LET c == IF ~log THEN Add(bn, Mul(an, Cnm1)) ELSE LogAddExp(bn, LogPlus(an, Cnm1))
    IN  IF c = DomainZero(log) THEN tiny ELSE c

Cn(an, bn, Cnm1, tiny, log) ==
    LET c == CnRaw(an, bn, Cnm1, log)
    IN  IF c = DomainZero(log) THEN tiny ELSE c

\* "and set f_n = f_{n-1} C_n D_n"
Times(x, y, log) == IF ~log THEN Mul(x, y) ELSE LogPlus(x, y)

post_func_eval(ab, work, tiny, log) ==
    LET J == DOMAIN ab
        an == [j \in J |-> ab[j][1]]
        bn == [j \in J |-> ab[j][2]]
        denominator == [j \in J |-> Denominator(an[j], bn[j], work.Dnm1[j], tiny, log)]
        dn == [j \in J |-> Dn(denominator[j], log)]
        cn == [j \in J |-> Cn(an[j], bn[j], work.Cnm1[j], tiny, log)]
        cndn == [j \in J |-> Times(cn[j], dn[j], log)]
        fn == [j \in J |-> Times(work.fn[j], cndn[j], log)]
        exact == [j \in J |->
                    /\ work.exact[j]
                    /\ IsFinite(an[j]) /\ IsFinite(bn[j])
                    /\ DenominatorRaw(an[j], bn[j], work.Dnm1[j], log) # DomainZero(log)
                    /\ CnRaw(an[j], bn[j], work.Cnm1[j], log) # DomainZero(log)
                    /\ IsFinite(denominator[j]) /\ IsFinite(dn[j])
                    /\ IsFinite(cn[j]) /\ IsFinite(cndn[j]) /\ IsFinite(fn[j])]
    IN  [work EXCEPT !.CnDn = cndn, !.fn = fn, !.Cnm1 = cn, !.Dnm1 = dn,
                     !.exact = exact]

\* "You quit when |D_n C_n - 1| is as small as you like, say eps"
Residual(CnDn, log) ==
    IF ~log THEN AbsV(Sub(CnDn, One)) ELSE LogResidual(CnDn)
Converged(CnDn, eps, log) == Less(Residual(CnDn, log), eps)

\* "If function value is NaN, report failure."
NotFinite(fn, log) ==
    IF ~log THEN ~IsFinite(fn) ELSE ~(LogIsFinite(fn) \/ fn = LogNegInf)

\* mutant: the first condition that matches wins
CheckStatusFirstWins(status, CnDn, fn, eps, log) ==
    IF Converged(CnDn, eps, log) THEN ECONVERGED
    ELSE IF NotFinite(fn, log) THEN EVALUEERR ELSE status

\* mutant: convergence stops an element without recording its status
CheckStatusNoConverged(status, CnDn, fn, eps, log) ==
    IF NotFinite(fn, log) THEN EVALUEERR ELSE status

\* the status an element leaves one termination check with
CheckStatus(status, CnDn, fn, eps, log) ==
    LET s1 == IF Converged(CnDn, eps, log) THEN ECONVERGED ELSE status
    IN  IF NotFinite(fn, log) THEN EVALUEERR ELSE s1

\* mutant: one element that stops makes every element stop
check_termination_any(work, log) ==
    LET J == DOMAIN work.CnDn
        any == \E j \in J : Converged(work.CnDn[j], work.eps, log)
                              \/ NotFinite(work.fn[j], log)
    IN  [status |-> [j \in J |-> CheckStatus(work.status[j], work.CnDn[j],
                                             work.fn[j], work.eps, log)],
         stop |-> [j \in J |-> any]]

\* mutant: a value error is recorded but the element is not stopped
check_termination_nostop(work, log) ==
    LET J == DOMAIN work.CnDn
    IN  [status |-> [j \in J |-> CheckStatus(work.status[j], work.CnDn[j],
                                             work.fn[j], work.eps, log)],
         stop |-> [j \in J |-> Converged(work.CnDn[j], work.eps, log)]]

\* check_termination: the statuses it records and the stop mask it returns
check_termination(work, log) ==
    LET J == DOMAIN work.CnDn
    IN  [status |-> [j \in J |-> CheckStatus(work.status[j], work.CnDn[j],
                                             work.fn[j], work.eps, log)],
         stop |-> [j \in J |-> Converged(work.CnDn[j], work.eps, log)
                               \/ NotFinite(work.fn[j], log)]]

----------------------------------------------------------------------------
\* The elementwise-iterative-method framework (eim)

\* _update_active: copy the work values of the active elements selected by
\* mask into the result arrays.  CnDn and exact are not part of the result
\* object: they record the correction factor and the history an element
\* stopped with.
update_active(work, res, active, mask) ==
    LET Hit(i) == \E k \in 1 .. Len(active) : active[k] = i /\ mask[k]
        Pos(i) == CHOOSE k \in 1 .. Len(active) : active[k] = i
        E == DOMAIN res.status
    IN  [status |-> [i \in E |-> IF Hit(i) THEN work.status[Pos(i)] ELSE res.status[i]],
         f |-> [i \in E |-> IF Hit(i) THEN work.fn[Pos(i)] ELSE res.f[i]],
         nit |-> [i \in E |-> IF Hit(i) THEN work.nit ELSE res.nit[i]],
         nfev |-> [i \in E |-> IF Hit(i) THEN work.nfev ELSE res.nfev[i]],
         success |-> [i \in E |-> IF Hit(i) THEN work.status[Pos(i)] = ECONVERGED
                                  ELSE res.success[i]],
         CnDn |-> [i \in E |-> IF Hit(i) THEN work.CnDn[Pos(i)] ELSE res.CnDn[i]],
         exact |-> [i \in E |-> IF Hit(i) THEN work.exact[Pos(i)] ELSE res.exact[i]]]

\* _check_termination: record the elements that stop and compress work
eim_check_termination(c, log) ==
    LET ct == check_termination(c.work, log)
        work == [c.work EXCEPT !.status = ct.status]
        stop == ct.stop
        proceed == [k \in DOMAIN stop |-> ~stop[k]]
    IN  IF \E k \in DOMAIN stop : stop[k]
        THEN [c EXCEPT
                !.res = update_active(work, c.res, c.active, stop),
                !.active = Masked(c.active, proceed),
                !.work = [work EXCEPT
                            !.fn = Masked(work.fn, proceed),
                            !.Cnm1 = Masked(work.Cnm1, proceed),
                            !.Dnm1 = Masked(work.Dnm1, proceed),
                            !.CnDn = Masked(work.CnDn, proceed),
                            !.status = Masked(work.status, proceed),
                            !.exact = Masked(work.exact, proceed),
                            !.args = IF work.args = <<>> THEN <<>>
                                     ELSE Masked(work.args, proceed)]]
        ELSE [c EXCEPT !.work = work]

\* _loop, before the first iteration: the result arrays, the active index
\* array and the termination check of the initial state
loop_enter(c, log) ==
    LET n == Len(c.work.fn)
        res == [status |-> Full(n, EINPROGRESS), f |-> Full(n, Zero),
                nit |-> Full(n, 0), nfev |-> Full(n, 0),
                success |-> Full(n, FALSE), CnDn |-> Full(n, Zero),
                exact |-> Full(n, FALSE)]
    IN  eim_check_termination(
            [c EXCEPT !.res = res, !.active = [k \in 1 .. n |-> k]], log)

\* the condition of the while loop of _loop
LoopCond(c, maxiter) == c.work.nit < maxiter /\ Len(c.active) > 0

\* func(n, *args): the stacked coefficient pairs of the active elements; cf
\* maps an element to the pair its callables return at term n
func(c, cf) ==
    IF c.work.args = <<>> THEN <<cf[c.elems[1]]>>
    ELSE [j \in DOMAIN c.work.args |-> cf[c.work.args[j]]]

\* one iteration of the while loop of _loop
loop_body(c, cf, log) ==
    LET w1 == pre_func_eval(c.work)
        f == func(c, cf)
        w2 == [w1 EXCEPT !.nfev = w1.nfev + 1]
        w3 == post_func_eval(f, w2, w2.tiny, log)
        w4 == [w3 EXCEPT !.nit = w3.nit + 1]
    IN  eim_check_termination([c EXCEPT !.work = w4, !.later = c.later + 1], log)

\* _loop after the while loop: work.status[:] = _ECONVERR, _prepare_result
prepare_result(c) ==
    LET work == [c.work EXCEPT !.status = [k \in DOMAIN c.work.status |-> ECONVERR]]
    IN  [c EXCEPT !.work = work,
                  !.res = update_active(work, c.res, c.active,
                                        [k \in DOMAIN c.active |-> TRUE])]

----------------------------------------------------------------------------
\* State

VARIABLES
    pc,      \* position of the calls in _continued_fraction
    opts,    \* tolerances, maxiter and log, as passed
    coef,    \* coef[i][n + 1] = <<a(n, x_i), b(n, x_i)>> as evaluated so far
    batch,   \* the call on all elements
    solo,    \* solo[i]: the call on element i alone
    alt      \* the batch call with another value of a(0, *args)

vars == <<pc, opts, coef, batch, solo, alt>>

NoWork == [n |-> 0, fn |-> <<>>, Cnm1 |-> <<>>, Dnm1 |-> <<>>, CnDn |-> <<>>,
           eps |-> Zero, tiny |-> Zero, nit |-> 0, nfev |-> 0,
           status |-> <<>>, args |-> <<>>, exact |-> <<>>]
NoRes == [status |-> <<>>, f |-> <<>>, nit |-> <<>>, nfev |-> <<>>,
          success |-> <<>>, CnDn |-> <<>>, exact |-> <<>>]

\* a call before it starts: elems are the elements it evaluates, a0 the
\* value of a(0, *args) for each of them; acalls0, bcalls0 and later count
\* the invocations of a and b at term 0 and of func at terms >= 1
NewCall(elems, noargs, a0) ==
    [elems |-> elems, noargs |-> noargs, a0 |-> a0,
     fs_a |-> <<>>, fs_b |-> <<>>, acalls0 |-> 0, bcalls0 |-> 0, later |-> 0,
     work |-> NoWork, active |-> <<>>, res |-> NoRes]

Init ==
    /\ pc = "start"
    /\ \E log \in BOOLEAN, tolerances \in ToleranceChoices, maxiter \in MaxiterChoices :
         opts = [log |-> log, eps |-> tolerances.eps, tiny |-> tolerances.tiny,
                 maxiter |-> maxiter]
    /\ \E size \in 1 .. NElem, noargs \in BOOLEAN, a0 \in A0Choices, a0alt \in A0Choices :
         /\ noargs => size = 1
         /\ a0alt # a0
         /\ coef \in [1 .. size -> {<< <<a0, b0>> >> : b0 \in B0Choices}]
         /\ batch = NewCall([k \in 1 .. size |-> k], noargs, Full(size, a0))
         /\ solo = [i \in 1 .. size |-> NewCall(<<i>>, noargs, <<a0>>)]
         /\ alt = NewCall([k \in 1 .. size |-> k], noargs, Full(size, a0alt))

\* res = _continued_fraction_iv(a, b, args, tolerances, maxiter, log)
Validate ==
    /\ pc = "start"
    /\ pc' = IF continued_fraction_iv(opts, opts.maxiter, opts.log)
             THEN "valid" ELSE "error"
    /\ UNCHANGED <<opts, coef, batch, solo, alt>>

\* xp = array_namespace(*args) if args else array_namespace(a(0))
namespace_probe(c) ==
    IF c.noargs THEN [c EXCEPT !.acalls0 = c.acalls0 + 1] ELSE c
Probe ==
    /\ pc = "valid"
    /\ pc' = "probed"
    /\ batch' = namespace_probe(batch)
    /\ solo' = [i \in DOMAIN solo |-> namespace_probe(solo[i])]
    /\ alt' = namespace_probe(alt)
    /\ UNCHANGED <<opts, coef>>

\* temp = eim._initialize(a, (zero,), args, complex_ok=True)
initialize_a(c) == [c EXCEPT !.fs_a = c.a0, !.acalls0 = c.acalls0 + 1]
InitializeA ==
    /\ pc = "probed"
    /\ pc' = "inita"
    /\ batch' = initialize_a(batch)
    /\ solo' = [i \in DOMAIN solo |-> initialize_a(solo[i])]
    /\ alt' = initialize_a(alt)
    /\ UNCHANGED <<opts, coef>>

\* temp = eim._initialize(b, (zero,), args, complex_ok=True)
initialize_b(c) ==
    [c EXCEPT !.fs_b = [j \in DOMAIN c.elems |-> coef[c.elems[j]][1][2]],
              !.bcalls0 = c.bcalls0 + 1]
InitializeB ==
    /\ pc = "inita"
    /\ pc' = "initb"
    /\ batch' = initialize_b(batch)
    /\ solo' = [i \in DOMAIN solo |-> initialize_b(solo[i])]
    /\ alt' = initialize_b(alt)
    /\ UNCHANGED <<opts, coef>>

\* the broadcast zeroth terms, the tolerances and the work object
setup(c) ==
    [c EXCEPT !.work = InitWork(c.fs_a, c.fs_b,
                                IF c.noargs THEN <<>> ELSE c.elems, opts)]
Setup ==
    /\ pc = "initb"
    /\ pc' = "setup"
    /\ batch' = setup(batch)
    /\ solo' = [i \in DOMAIN solo |-> setup(solo[i])]
    /\ alt' = setup(alt)
    /\ UNCHANGED <<opts, coef>>

\* return eim._loop(...): up to the while loop
enter(c) == loop_enter(c, opts.log)
Enter ==
    /\ pc = "setup"
    /\ pc' = "loop"
    /\ batch' = enter(batch)
    /\ solo' = [i \in DOMAIN solo |-> enter(solo[i])]
    /\ alt' = enter(alt)
    /\ UNCHANGED <<opts, coef>>

\* the elements a call evaluates in its next iteration
Evaluates(c) ==
    IF LoopCond(c, opts.maxiter)
    THEN {c.elems[c.active[k]] : k \in DOMAIN c.active} ELSE {}
Needed ==
    Evaluates(batch) \cup Evaluates(alt)
        \cup UNION {Evaluates(solo[i]) : i \in DOMAIN solo}

\* some call is still looping
AnyLooping == Needed # {}

\* one iteration of the while loop, in every call that is still looping; the
\* callables return some pair for each element that is evaluated
Iterate ==
    /\ pc = "loop"
    /\ LET needed == Needed
       IN  \E new \in [needed -> Pairs] :
             LET cf == [i \in DOMAIN coef |->
                          IF i \in needed THEN new[i] ELSE <<One, <<2, 1>>>>]
                 step(c) == IF LoopCond(c, opts.maxiter)
                            THEN loop_body(c, cf, opts.log) ELSE c
             IN  /\ coef' = [i \in DOMAIN coef |-> Append(coef[i], cf[i])]
                 /\ batch' = step(batch)
                 /\ solo' = [i \in DOMAIN solo |-> step(solo[i])]
                 /\ alt' = step(alt)
                 /\ needed # {}
    /\ UNCHANGED <<pc, opts>>

\* the while loop has ended in every call: the result is returned
Finish ==
    /\ pc = "loop"
    /\ ~AnyLooping
    /\ pc' = "done"
    /\ batch' = prepare_result(batch)
    /\ solo' = [i \in DOMAIN solo |-> prepare_result(solo[i])]
    /\ alt' = prepare_result(alt)
    /\ UNCHANGED <<opts, coef>>

Next ==
    \/ Validate
    \/ Probe
    \/ InitializeA
    \/ InitializeB
    \/ Setup
    \/ Enter
    \/ Iterate
    \/ Finish

Spec == Init /\ [][Next]_vars

----------------------------------------------------------------------------
\* Properties

Running == pc \in {"loop", "done"}

\* the element of the whole problem at position k of the active array of c
ElemAt(c, k) == c.elems[c.active[k]]

\* b0 + a1/(b1 + a2/(b2 + ... + ak/bk)) for the coefficients cs, evaluated
\* from the innermost term outwards in exact arithmetic
RECURSIVE CfTail(_, _, _)
CfTail(cs, j, k) ==
    IF j = k THEN cs[j + 1][2]
    ELSE AddX(cs[j + 1][2], MulX(cs[j + 2][1], RecipX(CfTail(cs, j + 1, k))))
Convergent(cs, k) == CfTail(cs, 0, k)

\* C1: in linear mode, for an element on which no tiny-substitution has been
\* triggered and no operation has left the finite range, the value fn held
\* after the k-th Lentz step is the k-th convergent
\* b0 + a1/(b1 + ... + ak/bk); this holds of the elements still iterating
\* and of the value recorded for an element that has stopped.
C1_Convergent ==
    (Running /\ ~opts.log) =>
        /\ \A k \in DOMAIN batch.active :
              batch.work.exact[k] =>
                  batch.work.fn[k]
                      = Convergent(coef[ElemAt(batch, k)], batch.work.nit)
        /\ \A i \in DOMAIN batch.res.f :
              (batch.res.status[i] # EINPROGRESS /\ batch.res.exact[i]) =>
                  batch.res.f[i] = Convergent(coef[i], batch.res.nit[i])

\* C1 witness: an element has taken two exact Lentz steps and then converged
\* on a value that is not b0
C1_Witness ==
    /\ pc = "done" /\ ~opts.log
    /\ \E i \in DOMAIN batch.res.f :
          /\ batch.res.exact[i] /\ batch.res.nit[i] = 2
          /\ batch.res.status[i] = ECONVERGED
          /\ batch.res.f[i] # coef[i][1][2]

\* what a call reports of element i: the work values while the element is
\* active, the recorded values once it has stopped
IsActive(c, i) == \E k \in DOMAIN c.active : c.active[k] = i
PosOf(c, i) == CHOOSE k \in DOMAIN c.active : c.active[k] = i
StatusOf(c, i) == IF IsActive(c, i) THEN c.work.status[PosOf(c, i)] ELSE c.res.status[i]
FOf(c, i) == IF IsActive(c, i) THEN c.work.fn[PosOf(c, i)] ELSE c.res.f[i]
NitOf(c, i) == IF IsActive(c, i) THEN c.work.nit ELSE c.res.nit[i]
NfevOf(c, i) == IF IsActive(c, i) THEN c.work.nfev ELSE c.res.nfev[i]
Elems(c) == DOMAIN c.res.status

\* C2: every element of the batch call finishes with the f, nit and status
\* that the call on that element alone finishes with.
C2_BatchIndependence ==
    pc = "done" =>
        \A i \in Elems(batch) :
            /\ batch.res.f[i] = solo[i].res.f[1]
            /\ batch.res.nit[i] = solo[i].res.nit[1]
            /\ batch.res.status[i] = solo[i].res.status[1]

\* C2 witness: a batch of two elements of which one stopped at an earlier
\* iteration than the other, with different statuses
C2_Witness ==
    /\ pc = "done"
    /\ \E i, j \in Elems(batch) :
          /\ batch.res.nit[i] < batch.res.nit[j]
          /\ batch.res.status[i] = EVALUEERR
          /\ batch.res.status[j] = ECONVERGED
          /\ batch.res.nit[i] >= 1

\* the state part of C3: a call performs at most maxiter iterations and then returns (every
\* step advances the call or iterates it once more, the iteration count
\* never exceeds maxiter, and while the loop runs the call can iterate or
\* return); the elements still in progress when the loop ends are exactly
\* those reported with status -2, they have success = False and
\* nit = maxiter, and an element reported as converged met the convergence
\* test.
C3_Final ==
    /\ Running => batch.work.nit <= opts.maxiter
    /\ pc = "loop" =>
          \/ LoopCond(batch, opts.maxiter)
          \/ ~AnyLooping
    /\ pc = "done" =>
          \A i \in Elems(batch) :
              /\ batch.res.status[i] \in {ECONVERGED, ECONVERR, EVALUEERR}
              /\ batch.res.status[i] = ECONVERR <=> IsActive(batch, i)
              /\ batch.res.status[i] = ECONVERR =>
                    /\ ~batch.res.success[i]
                    /\ batch.res.nit[i] = opts.maxiter
              /\ batch.res.status[i] = ECONVERGED =>
                    Converged(batch.res.CnDn[i], batch.work.eps, opts.log)
\* a step of the program moves to a later position or performs one more
\* iteration of the batch call, whose loop condition held
PcRank(p) ==
    CASE p = "start" -> 0 [] p = "valid" -> 1 [] p = "probed" -> 2
      [] p = "inita" -> 3 [] p = "initb" -> 4 [] p = "setup" -> 5
      [] p = "loop" -> 6 [] OTHER -> 7
C3_Step ==
    \/ PcRank(pc') > PcRank(pc)
    \/ /\ pc = "loop" /\ pc' = "loop"
       /\ LoopCond(batch, opts.maxiter)
       /\ batch'.work.nit = batch.work.nit + 1
\* C3: the call performs at most maxiter iterations and then returns; the
\* elements in progress at the end are those reported with status -2, with
\* success = False and nit = maxiter.
C3_MaxIter == [](C3_Final) /\ [][C3_Step]_vars

\* C3 witness: a call of maxiter = 2 has ended with an element still in
\* progress
C3_Witness ==
    /\ pc = "done" /\ opts.maxiter = 2
    /\ \E i \in Elems(batch) : batch.res.status[i] = ECONVERR

\* C4 as claimed: an element that stops at a termination check with its
\* residual below eps has status converged, also when its fn is not finite.
C4_ConvergedFirst ==
    Running =>
        \A i \in Elems(batch) :
            (/\ batch.res.status[i] \in {ECONVERGED, EVALUEERR}
             /\ Converged(batch.res.CnDn[i], batch.work.eps, opts.log))
                => batch.res.status[i] = ECONVERGED

\* C4 as amended: the value-error assignment comes last and wins.  An element
\* stopped by a termination check has status value-error exactly when its fn
\* is not finite, whatever its residual, and status converged exactly when
\* its fn is finite and its residual is below eps; the elements left active
\* satisfy neither condition.
C4_ValueErrorWins ==
    Running =>
        /\ \A i \in Elems(batch) :
              batch.res.status[i] \in {ECONVERGED, EVALUEERR} =>
                  /\ batch.res.status[i] = EVALUEERR
                        <=> NotFinite(batch.res.f[i], opts.log)
                  /\ batch.res.status[i] = ECONVERGED
                        <=> /\ ~NotFinite(batch.res.f[i], opts.log)
                            /\ Converged(batch.res.CnDn[i], batch.work.eps, opts.log)
        /\ \A k \in DOMAIN batch.active :
              /\ ~NotFinite(batch.work.fn[k], opts.log)
              /\ ~Converged(batch.work.CnDn[k], batch.work.eps, opts.log)

\* C4 witness: an element stopped with its residual below eps and a
\* non-finite fn, and is recorded as a value error
C4_Witness ==
    /\ Running
    /\ \E i \in Elems(batch) :
          /\ batch.res.status[i] = EVALUEERR
          /\ batch.res.nit[i] >= 1
          /\ Converged(batch.res.CnDn[i], batch.work.eps, opts.log)
          /\ NotFinite(batch.res.f[i], opts.log)

\* the state part of C5: from initialization on, every element has nfev = nit + 1 (nit = 0 and
\* nfev = 1 before the first iteration), in the work object and in the
\* values recorded for it, and no step decreases an element's nit.
C5_State ==
    /\ pc = "setup" => (batch.work.nit = 0 /\ batch.work.nfev = 1)
    /\ Running => \A i \in Elems(batch) : NfevOf(batch, i) = NitOf(batch, i) + 1
C5_Step ==
    (Running /\ Running') =>
        \A i \in Elems(batch) : NitOf(batch', i) >= NitOf(batch, i)
\* C5: nfev = nit + 1 in every state from initialization on, and nit never
\* decreases.
C5_Counters == [](C5_State) /\ [][C5_Step]_vars

\* C5 witness: the call returned with one element stopped at nit = 1 and
\* another at nit = 2
C5_Witness ==
    /\ pc = "done"
    /\ \E i, j \in Elems(batch) :
          /\ batch.res.nit[i] = 1 /\ batch.res.nfev[i] = 2
          /\ batch.res.nit[j] = 2 /\ batch.res.nfev[j] = 3

\* the step of C6: once an element's status is a terminal code, no step changes the
\* status, f or nit the call reports for it.
C6_Step ==
    (Running /\ Running') =>
        \A i \in Elems(batch) :
            StatusOf(batch, i) # EINPROGRESS =>
                /\ StatusOf(batch', i) = StatusOf(batch, i)
                /\ FOf(batch', i) = FOf(batch, i)
                /\ NitOf(batch', i) = NitOf(batch, i)
\* C6: an element's terminal status, and the f and nit reported with it,
\* are never changed by a later step.
C6_Frozen == [][C6_Step]_vars

\* C6 witness: an element stopped at the first iteration while another went
\* on to a second iteration
C6_Witness ==
    /\ pc = "loop"
    /\ batch.work.nit = 2
    /\ \E i \in Elems(batch) :
          /\ batch.res.status[i] \in {ECONVERGED, EVALUEERR}
          /\ batch.res.nit[i] = 1
    /\ \E j \in Elems(batch) : batch.res.nit[j] = 2 \/ IsActive(batch, j)

\* C7: when initialization is complete each of the callables a and b has
\* been invoked exactly once at term 0, with or without args, and no term
\* n >= 1 has been evaluated before that.
C7_OneCallEach ==
    /\ pc \in {"setup", "loop", "done"} =>
          (batch.acalls0 = 1 /\ batch.bcalls0 = 1)
    /\ pc \in {"start", "valid", "probed", "inita", "initb", "setup"} =>
          batch.later = 0

\* C8: the call with another value of a(0, *args) returns the same f,
\* status, nit and nfev for every element.
C8_A0Ignored ==
    pc = "done" =>
        /\ alt.res.f = batch.res.f
        /\ alt.res.status = batch.res.status
        /\ alt.res.nit = batch.res.nit
        /\ alt.res.nfev = batch.res.nfev

\* C8 witness: two calls whose a(0, *args) differ have returned after
\* iterating, one element converged
C8_Witness ==
    /\ pc = "done"
    /\ alt.fs_a # batch.fs_a
    /\ \E i \in Elems(batch) :
          batch.res.nit[i] = 2 /\ batch.res.status[i] = ECONVERGED

\* C9: no element is recorded as converged with nit = 0; an element that is
\* reported with nit = 0 is a value error with a non-finite b(0), or reached
\* the iteration cap of a call with maxiter = 0.
C9_NoInitialConvergence ==
    Running =>
        \A i \in Elems(batch) :
            /\ ~(batch.res.status[i] = ECONVERGED /\ batch.res.nit[i] = 0)
            /\ (pc = "done" /\ batch.res.nit[i] = 0) =>
                  \/ /\ batch.res.status[i] = EVALUEERR
                     /\ NotFinite(coef[i][1][2], opts.log)
                  \/ /\ batch.res.status[i] = ECONVERR
                     /\ opts.maxiter = 0

\* C9 witness: the check of the initial state has run on an element whose
\* eps is large, and has left it in progress with the sentinel in place
C9_Witness ==
    /\ pc = "loop" /\ batch.work.nit = 0
    /\ Less(One, batch.work.eps)
    /\ \E k \in DOMAIN batch.active :
          /\ batch.work.CnDn[k] = InitCnDn(opts.log)
          /\ batch.work.status[k] = EINPROGRESS

\* C10: for every active element Cnm1 is never the zero of the domain, and
\* whatever coefficients the next term has, neither the denominator that Dn
\* is computed from nor the next Cn is the zero of the domain.
C10_NoZero ==
    Running =>
        \A k \in DOMAIN batch.active :
            /\ batch.work.Cnm1[k] # DomainZero(opts.log)
            /\ \A p \in Pairs :
                  /\ Denominator(p[1], p[2], batch.work.Dnm1[k],
                                 batch.work.tiny, opts.log) # DomainZero(opts.log)
                  /\ Cn(p[1], p[2], batch.work.Cnm1[k],
                        batch.work.tiny, opts.log) # DomainZero(opts.log)

\* C10 witness: in linear mode the expression for Cn vanished at the first
\* step of an element and its denominator at the second, and the element
\* iterates on with 1/tiny as Dn
C10_Witness ==
    /\ pc = "loop" /\ batch.work.nit = 2 /\ ~opts.log
    /\ \E k \in DOMAIN batch.active :
          LET cs == coef[ElemAt(batch, k)]
          IN  /\ cs[1][2] = One
              /\ cs[2] = <<Neg(One), One>>
              /\ cs[3] = <<Neg(One), One>>
              /\ batch.work.Dnm1[k] = RecipX(batch.work.tiny)

====
